---- MODULE Spec2Model ----
(***************************************************************************)
(* Model of embedded-mono-img (src/main.rs): the bit packer `Pack` and the *)
(* row driver `process_image`.                                             *)
(*                                                                         *)
(* A Pack is the record [writer, bits, ctr] of the struct; its methods are *)
(* operators returning [pack, res], res being the Result of the call       *)
(* ("Ok", "Err") or "Panic" for the out-of-bounds index of bits[ctr].      *)
(* The sink is the sequence of bytes written so far; whether a write_all   *)
(* succeeds is the parameter `ok` of every operation that may write.       *)
(***************************************************************************)
EXTENDS Integers, Sequences, FiniteSets, TLC

\* ---------------------------------------------------------------- bounds
MaxAdds    == 9    \* add calls in one behaviour of Spec
MaxFlushes == 2    \* flush calls in one behaviour of Spec
MaxFails   == 1    \* failing sink writes in one behaviour of Spec
PatLen     == 4    \* longest repeated bit pattern of a test script
MaxReps    == 30   \* most repetitions of the pattern of a test script
MaxWidth   == 16   \* widest generated grid
MaxHeight  == 3    \* tallest generated grid
MaxSeed    == 1    \* pixel generators 0..MaxSeed

\* ------------------------------------------------------- program constants
BITS_LEN          == 8     \* bits: [u8; 8]
DEFAULT_THRESHOLD == 100   \* #[arg(default_value = "100")]

\* ----------------------------------------------------------------- helpers
Ceil8(n) == (n + 7) \div 8

RECURSIVE Pow2(_)
Pow2(n) == IF n = 0 THEN 1 ELSE 2 * Pow2(n - 1)

\* u8 `|`
RECURSIVE BitOr(_, _)
BitOr(a, b) ==
    IF a = 0 THEN b
    ELSE IF b = 0 THEN a
    ELSE (IF a % 2 = 1 \/ b % 2 = 1 THEN 1 ELSE 0) + 2 * BitOr(a \div 2, b \div 2)

Last(s) == s[Len(s)]

IsPrefix(s, t) == Len(s) <= Len(t) /\ SubSeq(t, 1, Len(s)) = s

\* ------------------------------------------------------------------- Pack
\* Default::default() of [u8; 8]
ZeroBits == [i \in 0 .. BITS_LEN - 1 |-> 0]

new(writer) == [writer |-> writer, bits |-> ZeroBits, ctr |-> 0]

clear_keep_bits(p) == [p EXCEPT !.ctr = 0]

clear(p) == [p EXCEPT !.bits = ZeroBits, !.ctr = 0]

RECURSIVE to_byte_loop(_, _, _)
to_byte_loop(bits, ctr, byte) ==
    IF ctr >= BITS_LEN THEN byte
    ELSE LET shifted == IF ctr > 0 THEN (byte * 2) % 256 ELSE byte
         IN  to_byte_loop(bits, ctr + 1, BitOr(shifted, bits[ctr]))

RECURSIVE to_byte_lsb_loop(_, _)
to_byte_lsb_loop(bits, ctr) ==
    IF ctr >= BITS_LEN THEN 0
    ELSE bits[ctr] + 2 * to_byte_lsb_loop(bits, ctr + 1)

to_byte_lsb_first(p) == to_byte_lsb_loop(p.bits, 0)

to_byte(p) == to_byte_loop(p.bits, 0, 0)

\* io::Write::write_all(&[byte]) on the sink
write_all(w, byte, ok) ==
    IF ok THEN [writer |-> Append(w, byte), res |-> "Ok"]
    ELSE [writer |-> w, res |-> "Err"]

write_clear_on_error(p, ok) ==
    LET byte == to_byte(p)
        w    == write_all(p.writer, byte, ok)
    IN  [pack |-> clear([p EXCEPT !.writer = w.writer]), res |-> w.res]

write(p, ok) ==
    LET byte == to_byte(p)
        w    == write_all(p.writer, byte, ok)
    IN  IF w.res = "Ok"
        THEN [pack |-> clear([p EXCEPT !.writer = w.writer]), res |-> "Ok"]
        ELSE [pack |-> p, res |-> "Err"]

add_emit_at_7(p, bit, ok) ==
    IF p.ctr >= BITS_LEN THEN [pack |-> p, res |-> "Panic"]
    ELSE LET q == [p EXCEPT !.bits[p.ctr] = bit, !.ctr = p.ctr + 1]
         IN  IF q.ctr >= BITS_LEN - 1 THEN write(q, ok)
             ELSE [pack |-> q, res |-> "Ok"]

add(p, bit, ok) ==
    IF p.ctr >= BITS_LEN THEN [pack |-> p, res |-> "Panic"]
    ELSE LET q == [p EXCEPT !.bits[p.ctr] = bit, !.ctr = p.ctr + 1]
         IN  IF q.ctr >= BITS_LEN THEN write(q, ok)
             ELSE [pack |-> q, res |-> "Ok"]

flush_always_writes(p, ok) == write(p, ok)

flush(p, ok) ==
    IF p.ctr = 0 THEN [pack |-> p, res |-> "Ok"]
    ELSE write(p, ok)

\* ------------------------------------------------------------------ state
VARIABLES
    pack,          \* the Pack: [writer, bits, ctr]
    ret,           \* result of the last Pack call: "None", "Ok", "Err", "Panic"
    call,          \* the last Pack call: "none", "add", "flush"
    fed,           \* history: the bits passed to add, in order
    pend,          \* history: the bits passed to add since the last emission
    emits,         \* history: one [byte, src, site] per byte written
    nflush,        \* history: number of flush calls
    nfail,         \* history: number of failed sink writes
    script,        \* the bit sequence a test feeds (SpecTest)
    img,           \* the luminance grid [width, height, data] (SpecImage)
    settings,      \* [threshold, no_flush_after_pixel_row] (SpecImage)
    row, col,      \* position of the row and pixel loops of process_image
    pc,            \* position in process_image: "loop", "sink_flush", "done"
    result,        \* what process_image returned: "None", "Ok", "Err"
    sink_flushes,  \* history: number of flush calls on the sink itself
    row_bytes      \* history: bytes written during each finished row

packVars  == <<pack, ret, call, fed, pend, emits, nflush, nfail>>
imageVars == <<img, settings, row, col, pc, result, sink_flushes, row_bytes>>
vars      == <<pack, ret, call, fed, pend, emits, nflush, nfail, script,
               img, settings, row, col, pc, result, sink_flushes, row_bytes>>

NoImage    == [width |-> 0, height |-> 0, data |-> <<>>]
NoSettings == [threshold |-> DEFAULT_THRESHOLD, no_flush_after_pixel_row |-> FALSE]

\* Pack::new(writer) on an empty sink, nothing called yet
FreshPack ==
    /\ pack = new(<<>>)
    /\ ret = "None" /\ call = "none"
    /\ fed = <<>> /\ pend = <<>> /\ emits = <<>>
    /\ nflush = 0 /\ nfail = 0

NoDriver ==
    /\ img = NoImage /\ settings = NoSettings
    /\ row = 0 /\ col = 0 /\ pc = "done" /\ result = "None"
    /\ sink_flushes = 0 /\ row_bytes = <<>>

\* the call pack.add(bit), with its effect on the history variables
CallAdd(bit, ok) ==
    LET r     == add(pack, bit, ok)
        wrote == Len(r.pack.writer) > Len(pack.writer)
        src   == Append(pend, bit)
    IN  /\ pack' = r.pack
        /\ ret' = r.res
        /\ call' = "add"
        /\ fed' = IF r.res = "Panic" THEN fed ELSE Append(fed, bit)
        /\ pend' = IF r.res = "Panic" THEN pend ELSE IF wrote THEN <<>> ELSE src
        /\ emits' = IF wrote
                    THEN Append(emits, [byte |-> Last(r.pack.writer), src |-> src,
                                        site |-> "add"])
                    ELSE emits
        /\ nfail' = IF r.res = "Err" THEN nfail + 1 ELSE nfail
        /\ UNCHANGED nflush

\* the call pack.flush() at the given call site
CallFlush(ok, site) ==
    LET r     == flush(pack, ok)
        wrote == Len(r.pack.writer) > Len(pack.writer)
    IN  /\ pack' = r.pack
        /\ ret' = r.res
        /\ call' = "flush"
        /\ pend' = IF wrote THEN <<>> ELSE pend
        /\ emits' = IF wrote
                    THEN Append(emits, [byte |-> Last(r.pack.writer), src |-> pend,
                                        site |-> site])
                    ELSE emits
        /\ nflush' = nflush + 1
        /\ nfail' = IF r.res = "Err" THEN nfail + 1 ELSE nfail
        /\ UNCHANGED fed

\* -------------------------------------------- Spec: any caller of a Pack
Init ==
    /\ FreshPack
    /\ NoDriver
    /\ script = <<>>

\* whether the sink may fail the next write
SinkChoices == IF nfail < MaxFails THEN BOOLEAN ELSE {TRUE}

Add(bit, ok) ==
    /\ ret # "Panic"
    /\ Len(fed) < MaxAdds
    /\ CallAdd(bit, ok)
    /\ UNCHANGED <<script, imageVars>>

Flush(ok) ==
    /\ ret # "Panic"
    /\ nflush < MaxFlushes
    /\ CallFlush(ok, "flush")
    /\ UNCHANGED <<script, imageVars>>

Next ==
    \/ \E bit \in {0, 1}, ok \in SinkChoices : Add(bit, ok)
    \/ \E ok \in SinkChoices : Flush(ok)

Spec == Init /\ [][Next]_vars

TypeOK ==
    /\ pack.ctr \in 0 .. BITS_LEN
    /\ \A i \in 1 .. Len(pack.writer) : pack.writer[i] \in 0 .. 255
    /\ ret \in {"None", "Ok", "Err", "Panic"}

\* ------------------------- SpecTest: the unit tests' use of a Pack on a Vec
\* the bit patterns a test repeats: every bit sequence of length 1..PatLen
Patterns == UNION {[1 .. n -> {0, 1}] : n \in 1 .. PatLen}

\* `for _ in 0..n { p.add(pat[0]); p.add(pat[1]); ... }`
Repeat(pat, n) == [i \in 1 .. n * Len(pat) |-> pat[((i - 1) % Len(pat)) + 1]]

Scripts == {Repeat(pat, n) : pat \in Patterns, n \in 0 .. MaxReps}

TestInit ==
    /\ FreshPack
    /\ NoDriver
    /\ script \in Scripts

\* p.add(bit).unwrap() on a Vec, whose write_all never fails
TestAdd ==
    /\ nflush = 0
    /\ Len(fed) < Len(script)
    /\ CallAdd(script[Len(fed) + 1], TRUE)
    /\ UNCHANGED <<script, imageVars>>

\* p.flush().unwrap() after the loop
TestFlush ==
    /\ nflush = 0
    /\ Len(fed) = Len(script)
    /\ CallFlush(TRUE, "flush")
    /\ UNCHANGED <<script, imageVars>>

TestNext == TestAdd \/ TestFlush

SpecTest == TestInit /\ [][TestNext]_vars

\* the test has run to its assert_eq!(p.into_inner(), ..)
TestDone == nflush = 1 /\ call = "flush"

\* ------------------------------------------- SpecImage: process_image
\* the sample values the generated grids are made of
Palette == <<0, 100, 101, 255, 37, 200>>

\* the sample at row-major index i (from 1) of the grid with the given seed
Sample(seed, i) == Palette[(((seed + 1) * i + (i \div (seed + 3))) % Len(Palette)) + 1]

MakeImage(w, h, seed) ==
    [width |-> w, height |-> h, data |-> [i \in 1 .. w * h |-> Sample(seed, i)]]

\* the grids of the two conversion tests have these dimensions
ExampleDims == {<<24, 14>>, <<30, 30>>}

Images ==
    {MakeImage(w, h, seed) : w \in 0 .. MaxWidth, h \in 0 .. MaxHeight, seed \in 0 .. MaxSeed}
    \cup {MakeImage(d[1], d[2], 0) : d \in ExampleDims}

Thresholds == {0, DEFAULT_THRESHOLD, 255}

SettingsSet == [threshold : Thresholds, no_flush_after_pixel_row : BOOLEAN]

\* gray_image.rows(): the rows of the buffer; the image crate yields no row
\* at all for a buffer of width 0
rows(image) == IF image.width = 0 THEN 0 ELSE image.height

luma_column_major(image, r, c) == image.data[c * image.height + r + 1]

\* px.0[0] of the pixel at (r, c)
luma(image, r, c) == image.data[r * image.width + c + 1]

threshold_bit_inclusive(sample, threshold) == IF sample >= threshold THEN 1 ELSE 0

threshold_bit(sample, threshold) == IF sample > threshold THEN 1 ELSE 0

flush_after_row_always(s) == TRUE

flush_after_row_never(s) == FALSE

\* `if !settings.no_flush_after_pixel_row`
flush_after_row(s) == ~s.no_flush_after_pixel_row

aborts_never(res) == FALSE

\* the `?` after a Pack call: anything but Ok leaves process_image at once
aborts(res) == res # "Ok"

RECURSIVE SumSeq(_)
SumSeq(s) == IF s = <<>> THEN 0 ELSE s[1] + SumSeq(Tail(s))

ImageInit ==
    /\ FreshPack
    /\ script = <<>>
    /\ img \in Images
    /\ settings \in SettingsSet
    /\ row = 0 /\ col = 0 /\ pc = "loop" /\ result = "None"
    /\ sink_flushes = 0 /\ row_bytes = <<>>

\* one iteration of `for px in row`
Pixel(ok) ==
    /\ pc = "loop" /\ row < rows(img) /\ col < img.width
    /\ CallAdd(threshold_bit(luma(img, row, col), settings.threshold), ok)
    /\ IF aborts(ret')
       THEN pc' = "done" /\ result' = "Err" /\ UNCHANGED col
       ELSE col' = col + 1 /\ UNCHANGED <<pc, result>>
    /\ UNCHANGED <<script, img, settings, row, sink_flushes, row_bytes>>

\* the end of one iteration of `for row in gray_image.rows()`
RowEnd(ok) ==
    /\ pc = "loop" /\ row < rows(img) /\ col >= img.width
    /\ IF flush_after_row(settings)
       THEN CallFlush(ok, "row_flush")
       ELSE UNCHANGED packVars
    /\ IF flush_after_row(settings) /\ aborts(ret')
       THEN pc' = "done" /\ result' = "Err" /\ UNCHANGED <<row, col, row_bytes>>
       ELSE /\ row' = row + 1 /\ col' = 0
            /\ row_bytes' = Append(row_bytes, Len(pack'.writer) - SumSeq(row_bytes))
            /\ UNCHANGED <<pc, result>>
    /\ UNCHANGED <<script, img, settings, sink_flushes>>

\* `pack.flush()` after the loops
FinalFlush(ok) ==
    /\ pc = "loop" /\ row >= rows(img)
    /\ CallFlush(ok, "final_flush")
    /\ IF aborts(ret')
       THEN pc' = "done" /\ result' = "Err"
       ELSE pc' = "sink_flush" /\ UNCHANGED result
    /\ UNCHANGED <<script, img, settings, row, col, sink_flushes, row_bytes>>

\* `pack.into_inner().flush()` and the return
SinkFlush(ok) ==
    /\ pc = "sink_flush"
    /\ sink_flushes' = sink_flushes + 1
    /\ result' = IF ok THEN "Ok" ELSE "Err"
    /\ pc' = "done"
    /\ UNCHANGED <<packVars, script, img, settings, row, col, row_bytes>>

ImageNext ==
    \/ \E ok \in BOOLEAN : Pixel(ok)
    \/ \E ok \in BOOLEAN : RowEnd(ok)
    \/ \E ok \in BOOLEAN : FinalFlush(ok)
    \/ \E ok \in BOOLEAN : SinkFlush(ok)

SpecImage == ImageInit /\ [][ImageNext]_vars

\* -------------- SpecPixel: process_image on every one-pixel grid, for every
\* sample and every threshold of a u8
U8 == 0 .. 255

PixelInit ==
    /\ FreshPack
    /\ script = <<>>
    /\ \E sample \in U8 : img = [width |-> 1, height |-> 1, data |-> <<sample>>]
    /\ \E threshold \in U8 :
          settings = [threshold |-> threshold, no_flush_after_pixel_row |-> FALSE]
    /\ row = 0 /\ col = 0 /\ pc = "loop" /\ result = "None"
    /\ sink_flushes = 0 /\ row_bytes = <<>>

SpecPixel == PixelInit /\ [][ImageNext]_vars

\* process_image as a function of the grid and the settings: the bytes on
\* the sink when process_image is left, on a sink that never fails
RECURSIVE feed_row(_, _, _, _, _)
feed_row(p, image, s, r, c) ==
    IF c >= image.width THEN [pack |-> p, res |-> "Ok"]
    ELSE LET a == add(p, threshold_bit(luma(image, r, c), s.threshold), TRUE)
         IN  IF aborts(a.res) THEN a
             ELSE feed_row(a.pack, image, s, r, c + 1)

RECURSIVE feed_rows(_, _, _, _)
feed_rows(p, image, s, r) ==
    IF r >= rows(image) THEN flush(p, TRUE)
    ELSE LET q == feed_row(p, image, s, r, 0)
             f == IF flush_after_row(s) THEN flush(q.pack, TRUE) ELSE q
         IN  IF aborts(q.res) THEN q
             ELSE IF aborts(f.res) THEN f
             ELSE feed_rows(f.pack, image, s, r + 1)

process_image(image, s) == feed_rows(new(<<>>), image, s, 0).pack.writer

\* ================================================================ claims
\* the value of a byte whose high bits are src[1], src[2], .. and whose
\* remaining low bits are 0
RECURSIVE MsbValue(_)
MsbValue(src) ==
    IF src = <<>> THEN 0
    ELSE src[Len(src)] * Pow2(BITS_LEN - Len(src)) + MsbValue(SubSeq(src, 1, Len(src) - 1))

\* N adds and then one flush have returned, and no write has failed
AddsThenOneFlush == call = "flush" /\ nflush = 1 /\ nfail = 0 /\ ret = "Ok"

\* C1: N bits added to a fresh Pack on a sink that does not fail, then one
\* flush: the sink holds ceil(N/8) bytes, and when N mod 8 # 0 the low
\* 8 - (N mod 8) bits of the last byte are 0.
C1_LengthAndPadding ==
    AddsThenOneFlush =>
        LET N == Len(fed)
        IN  /\ Len(pack.writer) = Ceil8(N)
            /\ N % 8 # 0 => Last(pack.writer) % Pow2(8 - (N % 8)) = 0

C1_Witness ==
    /\ AddsThenOneFlush
    /\ Len(fed) = 9 /\ fed[9] = 1 /\ fed[2] = 1
    /\ Len(pack.writer) = 2 /\ Last(pack.writer) = 128

\* C2: every byte written is b0*128 + b1*64 + .. over the 1..8 bits added
\* since the previous emission, first bit highest, unfilled low bits 0; 16
\* adds of 1 (of 0) and a flush give [0xFF, 0xFF] ([0x00, 0x00]).
C2_EmittedByteValue ==
    /\ Len(emits) = Len(pack.writer)
    /\ \A i \in 1 .. Len(emits) :
          /\ Len(emits[i].src) \in 1 .. 8
          /\ emits[i].byte = MsbValue(emits[i].src)
          /\ pack.writer[i] = emits[i].byte
    /\ (TestDone /\ script = Repeat(<<1>>, 16)) => pack.writer = <<255, 255>>
    /\ (TestDone /\ script = Repeat(<<0>>, 16)) => pack.writer = <<0, 0>>

C2_Witness ==
    /\ TestDone
    /\ script = Repeat(<<1, 1, 0>>, 4)
    /\ pack.writer = <<219, 96>>
    /\ Len(emits[2].src) = 4

\* C3: row-aligned mode, no failed write: every row writes ceil(width/8)
\* bytes and the whole run writes height * ceil(width/8) bytes.
C3_RowAlignedLength ==
    (~settings.no_flush_after_pixel_row /\ nfail = 0) =>
        /\ \A i \in 1 .. Len(row_bytes) : row_bytes[i] = Ceil8(img.width)
        /\ pc # "loop" => /\ Len(row_bytes) = rows(img)
                          /\ Len(pack.writer) = img.height * Ceil8(img.width)

C3_Witness ==
    /\ result = "Ok" /\ ~settings.no_flush_after_pixel_row
    /\ img.width = 30 /\ img.height = 30
    /\ Len(pack.writer) = 120

FlushEmits == {i \in 1 .. Len(emits) : emits[i].site # "add"}

\* C4: continuous mode, no failed write: no byte is written by a flush
\* while the rows are being fed, at most one is written by the flush after
\* them, and the run writes ceil(width*height/8) bytes.
C4_ContinuousLength ==
    (settings.no_flush_after_pixel_row /\ nfail = 0) =>
        /\ (pc = "loop" /\ row < rows(img)) => FlushEmits = {}
        /\ Cardinality(FlushEmits) <= 1
        /\ \A i \in FlushEmits : emits[i].site = "final_flush" /\ i = Len(emits)
        /\ pc # "loop" => Len(pack.writer) = Ceil8(img.width * img.height)

C4_Witness ==
    /\ result = "Ok" /\ settings.no_flush_after_pixel_row
    /\ img.width = 30 /\ img.height = 30
    /\ Len(pack.writer) = 113
    /\ FlushEmits = {113}

RowAligned(s) == [s EXCEPT !.no_flush_after_pixel_row = FALSE]
Continuous(s) == [s EXCEPT !.no_flush_after_pixel_row = TRUE]

\* the output of the finished run, and of the same grid and threshold in
\* the other mode
OutOf(s) == IF s = settings THEN pack.writer ELSE process_image(img, s)

Finished == pc # "loop" /\ nfail = 0

\* C5 as stated: whenever the width is not a multiple of 8 the row-aligned
\* output is strictly longer than the continuous one, which has length
\* ceil(width*height/8).
C5_AsStated ==
    (Finished /\ img.width % 8 # 0) =>
        /\ Len(OutOf(RowAligned(settings))) > Len(OutOf(Continuous(settings)))
        /\ Len(OutOf(Continuous(settings))) = Ceil8(img.width * img.height)

\* C5 amended: when the width is not a multiple of 8 the row-aligned output
\* is never shorter than the continuous one, and strictly longer exactly
\* when the rows' padding adds up to a byte or more, that is when
\* height * (8 - width mod 8) >= 8; the continuous output has length
\* ceil(width*height/8).
C5_PaddingLength ==
    (Finished /\ img.width % 8 # 0) =>
        LET a == Len(OutOf(RowAligned(settings)))
            c == Len(OutOf(Continuous(settings)))
        IN  /\ a >= c
            /\ a > c <=> img.height * (8 - (img.width % 8)) >= 8
            /\ c = Ceil8(img.width * img.height)

C5_Witness ==
    /\ Finished /\ result = "Ok" /\ ~settings.no_flush_after_pixel_row
    /\ img.width = 5 /\ img.height = 3
    /\ Len(pack.writer) = 3
    /\ Len(process_image(img, Continuous(settings))) = 2

\* C6: when the width is a multiple of 8, the run's output is, byte for
\* byte, the output of both modes on that grid and threshold.
C6_AlignedWidthSameOutput ==
    (Finished /\ img.width % 8 = 0) =>
        /\ pack.writer = process_image(img, RowAligned(settings))
        /\ pack.writer = process_image(img, Continuous(settings))

C6_Witness ==
    /\ Finished /\ result = "Ok"
    /\ img.width = 16 /\ img.height = 3
    /\ Len(pack.writer) = 6
    /\ \E i \in 1 .. 6 : pack.writer[i] \notin {0, 255}

\* C7 as stated: 1,0 added 8 times and a flush give four bytes 0xAA.
C7_AsStated ==
    (TestDone /\ script = Repeat(<<1, 0>>, 8)) => pack.writer = <<170, 170, 170, 170>>

\* C7 amended: 1,0 added 16 times (32 bits) and a flush give
\* [0xAA, 0xAA, 0xAA, 0xAA]; 8 times (16 bits) give [0xAA, 0xAA].
C7_Alternating ==
    /\ (TestDone /\ script = Repeat(<<1, 0>>, 16)) => pack.writer = <<170, 170, 170, 170>>
    /\ (TestDone /\ script = Repeat(<<1, 0>>, 8)) => pack.writer = <<170, 170>>

C7_Witness ==
    /\ TestDone /\ script = Repeat(<<1, 0>>, 16)
    /\ Len(fed) = 32 /\ Len(pack.writer) = 4

\* C8 as stated: 1,0 added 15 times (30 bits) and a flush give the eight
\* bytes AA AA AA AA AA AA AA A0.
C8_AsStated ==
    (TestDone /\ script = Repeat(<<1, 0>>, 15)) =>
        pack.writer = <<170, 170, 170, 170, 170, 170, 170, 160>>

\* C8 amended: 1,0 added 30 times (60 bits) and a flush give the eight
\* bytes AA AA AA AA AA AA AA A0; 15 times (30 bits) give AA AA AA A8.
C8_Unaligned ==
    /\ (TestDone /\ script = Repeat(<<1, 0>>, 30)) =>
          pack.writer = <<170, 170, 170, 170, 170, 170, 170, 160>>
    /\ (TestDone /\ script = Repeat(<<1, 0>>, 15)) =>
          pack.writer = <<170, 170, 170, 168>>

C8_Witness ==
    /\ TestDone /\ script = Repeat(<<1, 0>>, 30)
    /\ Len(fed) = 60 /\ Len(pack.writer) = 8 /\ Len(emits[8].src) = 4

\* C9: a flush of an empty accumulator writes nothing, returns Ok and
\* leaves the Pack and its sink as they were, whether or not the sink would
\* accept a write; a flush that returned Ok leaves the accumulator empty, so
\* the flushes that follow it are of this kind.
C9_EmptyFlushNoOp ==
    [][(call' = "flush" /\ nflush' = nflush + 1) =>
          /\ pack.ctr = 0 => (pack' = pack /\ ret' = "Ok" /\ emits' = emits /\ nfail' = nfail)
          /\ ret' = "Ok" => pack'.ctr = 0]_vars

C9_Witness ==
    /\ call = "flush" /\ nflush = 2 /\ ret = "Ok"
    /\ Len(fed) = 3
    /\ Len(emits) = 1 /\ Len(emits[1].src) = 3
    /\ Len(pack.writer) = 1

\* C10: once a sink write has failed in process_image, process_image has
\* returned an error, nothing more is added, flushed or written, and the
\* sink holds a prefix of what the run writes on a sink that does not fail.
C10_WriteFailureAborts ==
    /\ [](nfail > 0 =>
            /\ pc = "done" /\ result = "Err" /\ ret = "Err"
            /\ nfail = 1
            /\ IsPrefix(pack.writer, process_image(img, settings))
            /\ Len(pack.writer) < Len(process_image(img, settings)))
    /\ [][nfail > 0 => UNCHANGED <<pack, fed, pend, emits, nflush, nfail, result>>]_vars

C10_Witness ==
    /\ nfail = 1 /\ result = "Err"
    /\ img.width = 11 /\ img.height = 3
    /\ Len(pack.writer) = 2
    /\ Len(fed) = 19
    /\ \E i \in 1 .. 2 : pack.writer[i] # 0

\* the bit at bit offset off (from 0) of a byte sequence, the high bit of
\* each byte first
BitAt(bytes, off) == (bytes[(off \div 8) + 1] \div Pow2(7 - (off % 8))) % 2

\* the bit a consumer expects for the pixel at (r, c) of the row-major grid
Lit(r, c) == IF img.data[r * img.width + c + 1] > settings.threshold THEN 1 ELSE 0

\* C11: continuous mode, finished without a failed write: the bit at bit
\* offset row*width + col of the output is 1 iff that pixel's sample exceeds
\* the threshold, and the bits after offset width*height - 1 are 0.
C11_ContinuousBitLayout ==
    (Finished /\ settings.no_flush_after_pixel_row) =>
        /\ 8 * Len(pack.writer) >= img.width * img.height
        /\ \A r \in 0 .. img.height - 1 : \A c \in 0 .. img.width - 1 :
              BitAt(pack.writer, r * img.width + c) = Lit(r, c)
        /\ \A off \in img.width * img.height .. 8 * Len(pack.writer) - 1 :
              BitAt(pack.writer, off) = 0

C11_Witness ==
    /\ Finished /\ result = "Ok" /\ settings.no_flush_after_pixel_row
    /\ img.width = 5 /\ img.height = 3
    /\ settings.threshold = DEFAULT_THRESHOLD
    /\ Len(pack.writer) = 2
    /\ BitAt(pack.writer, 1 * 5 + 2) # BitAt(pack.writer, 2 * 5 + 2)

\* C12: row-aligned mode, finished without a failed write: the bit of the
\* pixel at (row, col) is bit 7 - (col mod 8) of byte
\* row*ceil(width/8) + floor(col/8), so every row starts a byte, and the
\* bits after a row's last pixel in that row's last byte are 0.
C12_RowAlignedBitLayout ==
    (Finished /\ ~settings.no_flush_after_pixel_row) =>
        LET stride == Ceil8(img.width)
        IN  /\ Len(pack.writer) = rows(img) * stride
            /\ \A r \in 0 .. rows(img) - 1 :
                  /\ \A c \in 0 .. img.width - 1 :
                        (pack.writer[r * stride + (c \div 8) + 1] \div Pow2(7 - (c % 8))) % 2
                            = Lit(r, c)
                  /\ \A c \in img.width .. 8 * stride - 1 :
                        BitAt(pack.writer, 8 * r * stride + c) = 0

C12_Witness ==
    /\ Finished /\ result = "Ok" /\ ~settings.no_flush_after_pixel_row
    /\ img.width = 11 /\ img.height = 3
    /\ settings.threshold = DEFAULT_THRESHOLD
    /\ Len(pack.writer) = 6
    /\ pack.writer[4] # 0

\* C13: the bit fed to the packer for a pixel is 1 iff its sample is
\* strictly above the threshold: a sample equal to the threshold gives 0,
\* threshold 255 gives 0 for every sample, threshold 0 gives 1 for every
\* sample but 0.
C13_StrictThreshold ==
    \A k \in 1 .. Len(fed) :
        LET sample == img.data[k]
            t      == settings.threshold
        IN  /\ fed[k] \in {0, 1}
            /\ fed[k] = 1 <=> sample > t
            /\ sample = t => fed[k] = 0
            /\ t = 255 => fed[k] = 0
            /\ t = 0 => (fed[k] = 1 <=> sample # 0)

C13_Witness ==
    /\ Len(fed) = 1 /\ fed[1] = 0
    /\ img.data[1] = 255 /\ settings.threshold = 255
    /\ result = "Ok"
    /\ pack.writer = <<0>>

ZeroArea == img.width = 0 \/ img.height = 0

\* C14: on a grid of width 0 or height 0, in either mode, process_image
\* writes no byte, no write is attempted (so none can fail), and it returns
\* Ok unless the sink's own flush fails.
C14_ZeroAreaWritesNothing ==
    ZeroArea =>
        /\ pack.writer = <<>> /\ emits = <<>> /\ fed = <<>>
        /\ nfail = 0
        /\ pc = "done" => sink_flushes = 1
        /\ result = "Err" => (pc = "done" /\ sink_flushes = 1)

C14_Witness ==
    /\ img.width = 0 /\ img.height = 3
    /\ settings.no_flush_after_pixel_row
    /\ pc = "done" /\ result = "Ok"
    /\ nflush = 1
    /\ pack.writer = <<>>

\* C15 as stated: whenever an add or a flush has returned, with Ok or with
\* a write failure, ctr is in 0..7.
C15_AsStated ==
    ret \in {"Ok", "Err"} => pack.ctr \in 0 .. BITS_LEN - 1

\* the bits of the bytes written so far
RECURSIVE EmittedBits(_)
EmittedBits(es) == IF es = <<>> THEN 0 ELSE Len(es[1].src) + EmittedBits(Tail(es))

\* C16: while every call has succeeded, an add that supplies the 8th bit
\* writes the completed byte in that same call and any other add writes
\* nothing; a flush writes one byte iff bits are pending; so the sink holds
\* one byte per emission and the Pack holds fewer than 8 pending bits, all
\* the bits added and not yet written.
C16_SynchronousEmission ==
    /\ [](nfail = 0 =>
            /\ ret # "Panic"
            /\ Len(pack.writer) = Len(emits)
            /\ pack.ctr = Len(pend) /\ pack.ctr < BITS_LEN
            /\ Len(fed) = EmittedBits(emits) + pack.ctr
            /\ \A i \in 1 .. Len(emits) : emits[i].site = "add" => Len(emits[i].src) = 8)
    /\ [][(call' = "add" /\ Len(fed') = Len(fed) + 1 /\ nfail' = 0) =>
            IF pack.ctr = BITS_LEN - 1
            THEN /\ pack'.writer = Append(pack.writer, MsbValue(Append(pend, Last(fed'))))
                 /\ pack'.ctr = 0
            ELSE /\ pack'.writer = pack.writer
                 /\ pack'.ctr = pack.ctr + 1]_vars
    /\ [][(nflush' = nflush + 1 /\ nfail' = 0) =>
            IF pack.ctr > 0
            THEN /\ pack'.writer = Append(pack.writer, MsbValue(pend))
                 /\ pack'.ctr = 0
            ELSE pack'.writer = pack.writer]_vars

C16_Witness ==
    /\ nfail = 0 /\ call = "add" /\ ret = "Ok"
    /\ Len(fed) = 8 /\ fed[8] = 1
    /\ Len(pack.writer) = 1 /\ pack.writer[1] % 2 = 1
    /\ pack.ctr = 0

\* C17: in every state reachable by add and flush calls with bits 0 and 1,
\* every slot of bits at an index >= ctr holds 0, and so the low bits of a
\* byte written by a flush of k pending bits are 0.
C17_UnusedSlotsZero ==
    /\ \A i \in 0 .. BITS_LEN - 1 : i >= pack.ctr => pack.bits[i] = 0
    /\ \A i \in 1 .. Len(emits) :
          emits[i].site = "flush" => emits[i].byte % Pow2(BITS_LEN - Len(emits[i].src)) = 0

C17_Witness ==
    /\ Len(fed) = 9 /\ nflush = 0
    /\ pack.writer = <<255>>
    /\ pack.ctr = 1 /\ pack.bits[0] = 1 /\ pack.bits[7] = 0

\* C18: a Pack call whose sink write fails keeps the accumulator: bits and
\* ctr are what they were when the write was attempted (after a failing add
\* they hold the 8 bits including the one just added) and the sink is
\* unchanged; a flush that then succeeds writes exactly the byte of those
\* pending bits and empties the accumulator.
C18_FailedWriteKeepsBits ==
    /\ [](ret = "Err" =>
            /\ pack.ctr = Len(pend) /\ pack.ctr > 0
            /\ \A i \in 1 .. Len(pend) : pack.bits[i - 1] = pend[i])
    /\ [][(ret' = "Err" /\ nfail' = nfail + 1) =>
            /\ pack'.writer = pack.writer
            /\ emits' = emits
            /\ call' = "flush" => pack' = pack
            /\ call' = "add" =>
                  /\ pack.ctr = BITS_LEN - 1 /\ pack'.ctr = BITS_LEN
                  /\ pack'.bits = [pack.bits EXCEPT ![BITS_LEN - 1] = Last(fed')]
                  /\ Len(fed') = Len(fed) + 1]_vars
    /\ [][(ret = "Err" /\ nflush' = nflush + 1 /\ ret' = "Ok") =>
            /\ pack'.writer = Append(pack.writer, MsbValue(pend))
            /\ pack'.ctr = 0 /\ pack'.bits = ZeroBits
            /\ fed' = fed]_vars

C18_Witness ==
    /\ nfail = 1 /\ call = "flush" /\ ret = "Ok" /\ nflush = 2
    /\ fed = <<1, 0, 1>>
    /\ pack.writer = <<160>>
    /\ pack.ctr = 0

\* C19: the sink's own flush is called at most once; it has been called
\* exactly once when a run without a failed write is done, after the final
\* Pack::flush and after every byte write; it is never called in a run in
\* which a byte write has failed.
C19_SinkFlushOnce ==
    /\ [](/\ sink_flushes \in {0, 1}
          /\ nfail > 0 => sink_flushes = 0
          /\ (pc = "done" /\ nfail = 0) => sink_flushes = 1
          /\ sink_flushes = 1 =>
                /\ pc = "done" /\ nfail = 0
                /\ call = "flush" /\ ret = "Ok" /\ pack.ctr = 0
                /\ row = rows(img)
                /\ pack.writer = process_image(img, settings))
    /\ [][sink_flushes >= 1 => UNCHANGED <<pack, emits, nflush, fed>>]_vars

C19_Witness ==
    /\ sink_flushes = 1 /\ result = "Ok"
    /\ img.width = 11 /\ img.height = 2
    /\ settings.no_flush_after_pixel_row
    /\ Len(pack.writer) = 3
    /\ emits[3].site = "final_flush"

====
